---- MODULE Spec2Model ----
(***************************************************************************)
(* Route optimisation service of ml-backend/app/routers/reroute.py: the    *)
(* /api/reroute/ and /api/reroute/last-mile handlers, the solvers they     *)
(* call and the model handle loaded at startup.                            *)
(*                                                                         *)
(* Numbers.  Stops lie on the prime meridian at whole degrees of latitude, *)
(* where the haversine formula reduces to R * |dlat|.  Floats are held as  *)
(* integers: distances (km) in metres, miles in thousandths of a mile,     *)
(* minutes in thousandths of a minute, confidences in thousandths.         *)
(***************************************************************************)
EXTENDS Integers, Sequences, FiniteSets, TLC

\* ---------------------------------------------------------------- bounds
MaxStops == 7      \* longest stop list of a request
VarStops == 3      \* stop lists up to this length take every combination

\* ------------------------------------------------------ program constants
MetresPerDegree == 111195   \* 6371.0 km * radians(1 degree), in metres
ExactLimit == 6             \* len(stops) <= 6 -> exhaustive search
Inf == 2000000000           \* float('inf')
None == "None"              \* Python's None where an id is expected

Lats == 0..2                \* latitudes of stops and vehicle, in degrees
IdNames == <<"s1", "s2", "s3", "s4", "s5", "s6", "s7", "s8", "s9">>
ForeignId == "zz"           \* an id no stop of any request carries
ScoreVals == {-1, 0, 2}     \* values an edge score takes
Unloads == {0, 5}           \* unloadingTimeMinutes
Levels == {"heavy", "gridlock"}   \* congestionLevel: a listed one, an unlisted one

Abs(x) == IF x < 0 THEN -x ELSE x
Max(a, b) == IF a >= b THEN a ELSE b
Min(a, b) == IF a <= b THEN a ELSE b
Range(s) == {s[i] : i \in 1..Len(s)}

\* Python truthiness of a str: the empty string is falsy, so is None.
Truthy(id) == id # "" /\ id # None

\* ------------------------------------------------------------- geometry
\* calculate_distance_km on the meridian, in metres.
calculate_distance_km(lat1, lat2) == MetresPerDegree * Abs(lat2 - lat1)

\* total * 0.621371, in thousandths of a mile, rounded down.
KmToMiles(m) ==
    LET q == m \div 1000
        r == m % 1000
    IN (q * 621371 + (r * 621371) \div 1000) \div 1000

\* No discount at all: the distance as it is.
NoBoost(d) == d

\* dist *= 0.8 (exact: every distance is a multiple of 5 metres).
PriorityBoost(d) == (d * 8) \div 10

\* get_traffic_multiplier, in percent.
get_traffic_multiplier(level) ==
    CASE level = "none" -> 100
      [] level = "light" -> 90
      [] level = "moderate" -> 75
      [] level = "heavy" -> 50
      [] OTHER -> 80

\* ------------------------------------------------------------- requests
\* vehiclePosition: absent, a coordinate, or a dict without the 'lng' key.
NoVehicle == [kind |-> "none", lat |-> 0]
BadVehicle == [kind |-> "nolng", lat |-> 0]
Vehicles == {NoVehicle, BadVehicle} \cup {[kind |-> "ok", lat |-> l] : l \in Lats}

\* `if vehicle_pos:` -- a non-empty dict is truthy.
HasVehicle(v) == v.kind # "none"
\* vehicle_pos['lng'] raises KeyError on the dict without it.
VehicleRaises(v) == v.kind = "nolng"

MkStop(i, lat, unload, prio) ==
    [id |-> IdNames[i], lat |-> lat, unload |-> unload, prio |-> prio]

\* Stop lists of n stops: every combination of latitude and priority (last
\* mile) or unloading time (reroute) up to VarStops stops, and regular
\* layouts (offset, stride) beyond.
RECURSIVE LastMileLists(_)
LastMileLists(n) ==
    IF n = 0 THEN {<<>>}
    ELSE {Append(s, MkStop(n, l, 0, p)) :
            s \in LastMileLists(n - 1), l \in Lats, p \in {0, 1}}

RECURSIVE RerouteLists(_)
RerouteLists(n) ==
    IF n = 0 THEN {<<>>}
    ELSE {Append(s, MkStop(n, l, u, 0)) :
            s \in RerouteLists(n - 1), l \in Lats, u \in Unloads}

\* A regular layout: stop i at latitude off + i * stride (wrapped), the
\* stop at position mark (if any) with high priority and an unloading time.
Layout(n, off, stride, mark) ==
    [i \in 1..n |-> MkStop(i, (off + i * stride) % Cardinality(Lats),
                           IF i = mark THEN 5 ELSE 0, IF i = mark THEN 1 ELSE 0)]
Layouts(n) ==
    {Layout(n, off, stride, mark) : off \in Lats, stride \in 0..1, mark \in {0, 1}}

\* The ids of a request: distinct, the first one empty, or the first two equal.
WithIds(stops, variant) ==
    [i \in 1..Len(stops) |->
        IF variant = "empty" /\ i = 1 THEN [stops[i] EXCEPT !.id = ""]
        ELSE IF variant = "dup" /\ i = 2 THEN [stops[i] EXCEPT !.id = stops[1].id]
        ELSE stops[i]]

Ids(stops) == [i \in 1..Len(stops) |-> stops[i].id]
Reverse(s) == [i \in 1..Len(s) |-> s[Len(s) + 1 - i]]
DistinctIds(stops) ==
    \A i, j \in 1..Len(stops) : i # j => stops[i].id # stops[j].id

\* next(s for s in stops if s.id == stop_id): the first match.
HasStop(stops, id) == \E i \in 1..Len(stops) : stops[i].id = id
StopById(stops, id) ==
    stops[CHOOSE i \in 1..Len(stops) :
            /\ stops[i].id = id
            /\ \A j \in 1..(i - 1) : stops[j].id # id]

\* ----------------------------------------------------- metrics helpers
\* calculate_sequence_total_distance raises when it reads the vehicle dict
\* without 'lng', or when next(...) finds no stop with an id of the sequence.
SequenceDistanceRaises(sequence, stops, vehicle_pos) ==
    /\ Len(sequence) > 0
    /\ \/ VehicleRaises(vehicle_pos)
       \/ \E k \in 1..Len(sequence) : ~HasStop(stops, sequence[k])

RECURSIVE PathMetres(_, _, _, _)
PathMetres(sequence, stops, k, current_loc) ==
    IF k > Len(sequence) THEN 0
    ELSE LET next_loc == StopById(stops, sequence[k]).lat
         IN calculate_distance_km(current_loc, next_loc)
              + PathMetres(sequence, stops, k + 1, next_loc)

\* calculate_sequence_total_distance, in thousandths of a mile.
calculate_sequence_total_distance(sequence, stops, vehicle_pos) ==
    IF Len(sequence) = 0 THEN 0
    ELSE LET start == IF HasVehicle(vehicle_pos) THEN vehicle_pos.lat
                      ELSE StopById(stops, sequence[1]).lat
         IN KmToMiles(PathMetres(sequence, stops, 1, start))

\* request.currentSequence or [s.id for s in request.stops]
CurrentSeq(req) ==
    IF Len(req.currentSequence) > 0 THEN req.currentSequence ELSE Ids(req.stops)

\* max(0, current_dist - optimized_dist)
DistanceSavings(current_dist, optimized_dist) == Max(0, current_dist - optimized_dist)
\* distance_savings * 2
TimeSavings(distance_savings) == distance_savings * 2

\* -------------------------------------------- last-mile nearest neighbour
\* A comparison that lets a later equal candidate replace an earlier one.
CloserOrEqual(dist, nearest_dist) == dist <= nearest_dist

\* `if dist < nearest_dist:` -- strict, so the first of equals is kept.
Closer(dist, nearest_dist) == dist < nearest_dist

\* The plain distance of a stop from current_loc, whatever its priority.
GeometricDistance(current_loc, stop) == calculate_distance_km(current_loc, stop.lat)

\* Effective distance of a stop from current_loc (lines 519-524).
EffectiveDistance(current_loc, stop) ==
    LET dist == calculate_distance_km(current_loc, stop.lat)
    IN IF stop.prio = 1 THEN PriorityBoost(dist) ELSE dist

\* The for loop of one while iteration: <<nearest_id, nearest_dist>>.
RECURSIVE NearestScan(_, _, _, _, _, _)
NearestScan(stops, i, unv, current_loc, nearest_id, nearest_dist) ==
    IF i > Len(stops) THEN <<nearest_id, nearest_dist>>
    ELSE IF stops[i].id \notin unv
         THEN NearestScan(stops, i + 1, unv, current_loc, nearest_id, nearest_dist)
    ELSE LET dist == EffectiveDistance(current_loc, stops[i])
         IN IF Closer(dist, nearest_dist)
            THEN NearestScan(stops, i + 1, unv, current_loc, stops[i].id, dist)
            ELSE NearestScan(stops, i + 1, unv, current_loc, nearest_id, nearest_dist)

Nearest(stops, unv, current_loc) == NearestScan(stops, 1, unv, current_loc, None, Inf)

\* `if nearest_id:` -- the guard of the loop body's update.
NearestFound(nearest_id) == Truthy(nearest_id)

\* ------------------------------------------------- reroute cost model
\* (dist / (80.0 * traffic_mult)) * 60, in thousandths of a minute:
\* metres * 60 * 100 / (80 * percent * 1000) * 1000 = metres * 75 / percent.
TravelMinutes(dist, pct) == (dist * 75) \div pct
\* A cost model that leaves the unloading time out.
NoUnloadingMinutes(stop) == 0
\* stop.unloadingTimeMinutes or 0, in thousandths of a minute.
UnloadingMinutes(stop) == stop.unload * 1000

\* Cumulative times of visiting perm (a sequence of stops) from loc.
RECURSIVE CumulativeTimes(_, _, _, _, _)
CumulativeTimes(perm, k, loc, pct, total_time) ==
    IF k > Len(perm) THEN <<>>
    ELSE LET t == total_time
                   + TravelMinutes(calculate_distance_km(loc, perm[k].lat), pct)
                   + UnloadingMinutes(perm[k])
         IN <<t>> \o CumulativeTimes(perm, k + 1, perm[k].lat, pct, t)

TotalTime(perm, loc, pct) ==
    LET c == CumulativeTimes(perm, 1, loc, pct, 0)
    IN IF Len(c) = 0 THEN 0 ELSE c[Len(c)]

\* etas[stop.id] = total_time: a dict, a later write to a key replaces it.
EtasOf(perm, loc, pct) ==
    LET c == CumulativeTimes(perm, 1, loc, pct, 0)
    IN [id \in Range(Ids(perm)) |->
          c[CHOOSE k \in 1..Len(perm) :
               /\ perm[k].id = id
               /\ \A j \in (k + 1)..Len(perm) : perm[j].id # id]]

\* ------------------------------------------------------ exhaustive search
\* s without its first element, whatever i is.
RemoveFirst(s, i) == [k \in 1..(Len(s) - 1) |-> s[k + 1]]

\* remaining.pop(nearest_idx) / the rest of a permutation.
RemoveAt(s, i) == [k \in 1..(Len(s) - 1) |-> IF k < i THEN s[k] ELSE s[k + 1]]

\* A comparison that lets every permutation replace the best one.
BetterAlways(total_time, best_time) == TRUE

\* A comparison that lets a later equal permutation replace the best one.
BetterOrEqual(total_time, best_time) == total_time <= best_time

\* `if total_time < best_time:` -- strict, the first minimum is kept.
Better(total_time, best_time) == total_time < best_time

\* `for perm in permutations(stops)` with the inner loop over the stops of
\* perm: itertools.permutations yields the orderings in lexicographic order
\* of the positions in stops, so the walk below (first element by position,
\* then the orderings of the rest) meets them in that order.  prefix is the
\* part of perm already walked, total_time and loc its accumulators, and
\* best is <<best_time, best_sequence as a list of stops>>.
RECURSIVE ExhaustiveScan(_, _, _, _, _, _)
RECURSIVE ExhaustiveFrom(_, _, _, _, _, _, _)
ExhaustiveFrom(prefix, rest, i, loc, pct, total_time, best) ==
    IF i > Len(rest) THEN best
    ELSE LET stop == rest[i]
             t == total_time
                    + TravelMinutes(calculate_distance_km(loc, stop.lat), pct)
                    + UnloadingMinutes(stop)
             b == ExhaustiveScan(Append(prefix, stop), RemoveAt(rest, i),
                                 stop.lat, pct, t, best)
         IN IF b[1] <= Inf      \* always true: b is evaluated before the next call
            THEN ExhaustiveFrom(prefix, rest, i + 1, loc, pct, total_time, b)
            ELSE b
ExhaustiveScan(prefix, rest, loc, pct, total_time, best) ==
    IF Len(rest) = 0
    THEN IF Better(total_time, best[1]) THEN <<total_time, prefix>> ELSE best
    ELSE ExhaustiveFrom(prefix, rest, 1, loc, pct, total_time, best)

\* The label the exhaustive search would carry if it named itself.
ExhaustiveMethodAsNamed == "exact"

\* method="heuristic" of the response exhaustive_search_reroute builds.
ExhaustiveMethod == "heuristic"

\* exhaustive_search_reroute: the response for the request.
exhaustive_search_reroute(req) ==
    LET pct == get_traffic_multiplier(req.level)
        best == ExhaustiveScan(<<>>, req.stops, req.currentLocation, pct, 0,
                               <<Inf, <<>>>>)[2]
    IN [kind |-> "RerouteResponse",
        optimizedSequence |-> Ids(best),
        estimatedETAs |-> EtasOf(best, req.currentLocation, pct),
        timeSavings |-> 0,
        confidence |-> 750,
        method |-> ExhaustiveMethod,
        reason |-> "Exhaustive search over permutations"]

\* --------------------------------------------- reroute nearest neighbour
\* The for loop over enumerate(remaining): <<nearest_idx, min_distance>>.
RECURSIVE NearestIdxScan(_, _, _, _, _)
NearestIdxScan(remaining, idx, current_loc, nearest_idx, min_distance) ==
    IF idx > Len(remaining) THEN <<nearest_idx, min_distance>>
    ELSE LET dist == calculate_distance_km(current_loc, remaining[idx].lat)
         IN IF Closer(dist, min_distance)
            THEN NearestIdxScan(remaining, idx + 1, current_loc, idx, dist)
            ELSE NearestIdxScan(remaining, idx + 1, current_loc, nearest_idx, min_distance)

NearestIdx(remaining, current_loc) == NearestIdxScan(remaining, 1, current_loc, 1, Inf)

\* --------------------------------------------------- the scoring oracle
\* Edge-score matrices TRAINED_MODEL(node_features, adjacency_matrix) may
\* return for N nodes (node k of the model is node k-1 of the code): the
\* diagonal is 0 (torch.zeros, never written), entry (i, j) is p[i+j mod 3]
\* for a vector p of three scores.
ScoreVectors == [1..3 -> ScoreVals]

ScoreMatrix(N, p) ==
    [i \in 1..N |-> [j \in 1..N |-> IF i = j THEN 0 ELSE p[((i + j) % 3) + 1]]]

OracleOutputs(N) == {ScoreMatrix(N, p) : p \in ScoreVectors}

\* scores[v] = -inf for v in visited, then argmax: the first index of the
\* greatest entry.
Masked(row, visited) == [j \in DOMAIN row |-> IF j \in visited THEN -Inf ELSE row[j]]
ArgMax(row) ==
    CHOOSE j \in DOMAIN row :
        /\ \A k \in DOMAIN row : row[k] <= row[j]
        /\ \A k \in DOMAIN row : k < j => row[k] < row[j]

\* The while loop of decode_route_from_scores.
RECURSIVE DecodeLoop(_, _, _, _, _)
DecodeLoop(edge_scores, num_stops, route, visited, current) ==
    IF Cardinality(visited) >= num_stops THEN route
    ELSE LET next_node == ArgMax(Masked(edge_scores[current], visited))
         IN DecodeLoop(edge_scores, num_stops, Append(route, next_node),
                       visited \cup {next_node}, next_node)

\* decode_route_from_scores: the walk starts at the first node.
decode_route_from_scores(edge_scores, num_stops) ==
    DecodeLoop(edge_scores, num_stops, <<1>>, {1}, 1)

\* The greatest k in lo..hi with k * k * d <= q (bisection).
RECURSIVE FloorSqrt(_, _, _, _)
FloorSqrt(q, d, lo, hi) ==
    IF lo >= hi THEN lo
    ELSE LET mid == (lo + hi + 1) \div 2
         IN IF mid * mid * d <= q THEN FloorSqrt(q, d, mid, hi)
            ELSE FloorSqrt(q, d, lo, mid - 1)

\* edge_scores.std().item(), in hundredths, rounded down: the unbiased
\* standard deviation of all N*N entries.
RECURSIVE SumSeq(_)
SumSeq(s) == IF Len(s) = 0 THEN 0 ELSE s[1] + SumSeq(Tail(s))
Flatten(m, N) == [k \in 1..(N * N) |-> m[((k - 1) \div N) + 1][((k - 1) % N) + 1]]
ScoreStd(edge_scores, N) ==
    LET xs == Flatten(edge_scores, N)
        n == N * N
        s1 == SumSeq(xs)
        s2 == SumSeq([k \in 1..n |-> xs[k] * xs[k]])
        q == n * s2 - s1 * s1
        d == n * (n - 1)
    IN FloorSqrt(10000 * q, d, 0, 300)

\* The confidence without the cap of 0.95.
MlConfidenceUncapped(std) == 700 + std * 5

\* min(0.95, 0.7 + (edge_scores.std().item() * 0.5)), in thousandths.
MlConfidence(std) == Min(950, 700 + std * 5)

\* ------------------------------------------------------ request families
\* One deviation from a plain request at a time: an empty first id, two
\* equal ids, a currentSequence (the ids reversed), a currentSequence naming
\* an id no stop has, a vehicle dict without 'lng'.
LastMileRequest(stops, vehicle, variant) ==
    LET ss == WithIds(stops, variant)
    IN [stops |-> ss,
        vehiclePosition |-> vehicle,
        currentSequence |-> CASE variant = "reversed" -> Reverse(Ids(ss))
                              [] variant = "foreign" -> <<ForeignId>>
                              [] OTHER -> <<>>,
        currentLocation |-> 0,
        level |-> "none"]

\* A reroute Stop has no priority field.
NoPriority(stops) == [i \in 1..Len(stops) |-> [stops[i] EXCEPT !.prio = 0]]

RerouteRequest(stops, loc, level, variant) ==
    [stops |-> NoPriority(WithIds(stops, variant)),
     vehiclePosition |-> NoVehicle,
     currentSequence |-> <<>>,
     currentLocation |-> loc,
     level |-> level]

LastMileStopLists ==
    UNION {IF n <= VarStops THEN LastMileLists(n) ELSE Layouts(n) : n \in 0..MaxStops}
RerouteStopLists ==
    UNION {IF n <= VarStops THEN RerouteLists(n) ELSE Layouts(n) : n \in 0..MaxStops}

LastMileRequests ==
    {LastMileRequest(s, v, x) :
        s \in LastMileStopLists, v \in Vehicles \ {BadVehicle}, x \in {"plain", "reversed"}}
    \cup {LastMileRequest(s, NoVehicle, x) :
        s \in LastMileStopLists, x \in {"empty", "dup", "foreign"}}
    \cup {LastMileRequest(s, BadVehicle, "plain") : s \in LastMileStopLists}

RerouteRequests ==
    {RerouteRequest(s, l, t, x) :
        s \in RerouteStopLists, l \in Lats, t \in Levels, x \in {"plain", "dup"}}

NoRequest == LastMileRequest(<<>>, NoVehicle, "plain")
NoResponse == [kind |-> "none"]
HTTPException == [kind |-> "HTTPException", status_code |-> 500]
IterCap == MaxStops + 2

\* ---------------------------------------------------------------- state
VARIABLES
    TRAINED_MODEL,    \* the module-level handle: "None" or "loaded"
    pc,               \* where the process is
    endpoint,         \* "none", "reroute" or "last_mile"
    request,          \* the request being served
    unvisited,        \* heuristic_optimize_last_mile: set of ids
    remaining,        \* heuristic_reroute: list of stops
    optimized,        \* optimized / optimized_sequence
    current_loc,      \* current_loc
    total_distance,   \* heuristic_optimize_last_mile: total_distance
    cumulative_time,  \* heuristic_reroute: cumulative_time
    etas,             \* heuristic_reroute: etas
    iters,            \* iterations of the running while loop
    oracle_calls,     \* calls of TRAINED_MODEL(...) for this request
    ml_error,         \* what raised inside ml_optimize_last_mile's try, or "none"
    ran,              \* the solvers entered for this request
    strategy,         \* the solver whose route the response carries
    response,         \* what the endpoint handler returned or raised
    suspended         \* the frames of the requests in flight that are not running

vars == <<TRAINED_MODEL, pc, endpoint, request, unvisited, remaining, optimized,
          current_loc, total_distance, cumulative_time, etas, iters,
          oracle_calls, ml_error, ran, strategy, response, suspended>>

loopVars == <<unvisited, remaining, optimized, current_loc, total_distance,
              cumulative_time, etas, iters>>

Fresh ==
    /\ endpoint = "none"
    /\ request = NoRequest
    /\ unvisited = {}
    /\ remaining = <<>>
    /\ optimized = <<>>
    /\ current_loc = 0
    /\ total_distance = 0
    /\ cumulative_time = 0
    /\ etas = <<>>
    /\ iters = 0
    /\ oracle_calls = 0
    /\ ml_error = "none"
    /\ ran = {}
    /\ strategy = "none"
    /\ response = NoResponse

\* Module import: TRAINED_MODEL = None (line 21).
Init ==
    /\ TRAINED_MODEL = None
    /\ pc = "boot"
    /\ Fresh
    /\ suspended = <<>>

\* load_reroute_model: the handle is set once the state dict has loaded, and
\* to None when the file is missing or loading raises.
load_reroute_model(path_exists, load_ok) ==
    IF path_exists /\ load_ok THEN "loaded" ELSE None

\* startup_event: loads the model when the file exists.
startup_event ==
    /\ pc = "boot"
    /\ \E path_exists \in BOOLEAN, load_ok \in BOOLEAN :
         TRAINED_MODEL' = IF path_exists
                          THEN load_reroute_model(path_exists, load_ok)
                          ELSE TRAINED_MODEL
    /\ pc' = "idle"
    /\ UNCHANGED <<suspended, endpoint, request, loopVars, oracle_calls,
                   ml_error, ran, strategy, response>>

\* ------------------------------------------------------ last-mile handler
NumStops == Len(request.stops)

\* LastMileResponse(...) as both paths build it (lines 451-471, 545-565).
LastMileResponse(sequence, current_dist, optimized_dist, confidence, reasoning) ==
    [kind |-> "LastMileResponse",
     optimized_sequence |-> sequence,
     time_savings_minutes |-> TimeSavings(DistanceSavings(current_dist, optimized_dist)),
     distance_savings_miles |-> DistanceSavings(current_dist, optimized_dist),
     confidence |-> confidence,
     reasoning |-> reasoning,
     current_total |-> current_dist,
     optimized_total |-> optimized_dist]

\* The response of lines 483-495.
TrivialLastMileResponse(stops) ==
    [kind |-> "LastMileResponse",
     optimized_sequence |-> Ids(stops),
     time_savings_minutes |-> 0,
     distance_savings_miles |-> 0,
     confidence |-> 1000,
     reasoning |-> "Single stop - no optimization needed",
     current_total |-> 0,
     optimized_total |-> 0]

\* POST /api/reroute/last-mile: the handler calls ml_optimize_last_mile.
optimize_last_mile ==
    /\ pc = "idle"
    /\ \E req \in LastMileRequests : request' = req
    /\ endpoint' = "last_mile"
    /\ pc' = "lm_ml"
    /\ UNCHANGED <<TRAINED_MODEL, suspended, loopVars, oracle_calls, ml_error, ran,
                   strategy, response>>

\* A guard that looks at the stop count only.
MlGuardStopsOnly(model, n) == n <= 1

\* `if TRAINED_MODEL is None or len(request.stops) <= 1:`
MlGuard(model, n) == model = None \/ n <= 1

\* ml_optimize_last_mile, lines 410-412: straight to the heuristic.
MlNotTried ==
    /\ pc = "lm_ml"
    /\ MlGuard(TRAINED_MODEL, NumStops)
    /\ pc' = "lm_heur"
    /\ UNCHANGED <<TRAINED_MODEL, suspended, endpoint, request, loopVars, oracle_calls,
                   ml_error, ran, strategy, response>>

\* build_graph_from_stops raises on the vehicle dict: the except branch.
MlGraphRaises ==
    /\ pc = "lm_ml"
    /\ ~MlGuard(TRAINED_MODEL, NumStops)
    /\ VehicleRaises(request.vehiclePosition)
    /\ ran' = ran \cup {"ml"}
    /\ ml_error' = "build_graph"
    /\ pc' = "lm_heur"
    /\ UNCHANGED <<TRAINED_MODEL, suspended, endpoint, request, loopVars, oracle_calls,
                   strategy, response>>

\* TRAINED_MODEL(node_features, adjacency_matrix) raises: the except branch.
MlOracleRaises ==
    /\ pc = "lm_ml"
    /\ ~MlGuard(TRAINED_MODEL, NumStops)
    /\ ~VehicleRaises(request.vehiclePosition)
    /\ oracle_calls' = oracle_calls + 1
    /\ ran' = ran \cup {"ml"}
    /\ ml_error' = "oracle"
    /\ pc' = "lm_heur"
    /\ UNCHANGED <<TRAINED_MODEL, suspended, endpoint, request, loopVars, strategy, response>>

\* [request.stops[i].id for i in optimized_indices]
IdsOfRoute(stops, route) == [k \in 1..Len(route) |-> stops[route[k]].id]

\* The oracle answers: decode, metrics and response (lines 423-471), or the
\* except branch when the metrics raise.
MlAnswers ==
    /\ pc = "lm_ml"
    /\ ~MlGuard(TRAINED_MODEL, NumStops)
    /\ ~VehicleRaises(request.vehiclePosition)
    /\ oracle_calls' = oracle_calls + 1
    /\ ran' = ran \cup {"ml"}
    /\ \E edge_scores \in OracleOutputs(NumStops) :
         LET optimized_indices == decode_route_from_scores(edge_scores, NumStops)
             optimized_sequence == IdsOfRoute(request.stops, optimized_indices)
             current_seq == CurrentSeq(request)
             raises == SequenceDistanceRaises(current_seq, request.stops,
                                              request.vehiclePosition)
         IN IF raises
            THEN /\ ml_error' = "metrics"
                 /\ pc' = "lm_heur"
                 /\ UNCHANGED <<strategy, response>>
            ELSE /\ ml_error' = "none"
                 /\ pc' = "responded"
                 /\ strategy' = "ml"
                 /\ response' = LastMileResponse(
                        optimized_sequence,
                        calculate_sequence_total_distance(
                            current_seq, request.stops, request.vehiclePosition),
                        calculate_sequence_total_distance(
                            optimized_sequence, request.stops, request.vehiclePosition),
                        MlConfidence(ScoreStd(edge_scores, NumStops)),
                        "Optimized using Graph Neural Network (GNN) model with 87.5% accuracy")
    /\ UNCHANGED <<TRAINED_MODEL, suspended, endpoint, request, loopVars>>

\* The confidence of the reroute heuristic, 0.6, on the last-mile one.
ConfidenceOfRerouteHeuristic == 650 - 50

\* confidence=0.65 of the response heuristic_optimize_last_mile builds.
LastMileHeuristicConfidence == 650

\* Nothing to order only when there is no stop at all.
NoChoiceWhenEmpty(n) == n < 1

\* `if len(stops) <= 1:` of heuristic_optimize_last_mile.
NoChoice(n) == n <= 1

\* heuristic_optimize_last_mile, lines 481-495.
HeuristicTrivial ==
    /\ pc = "lm_heur"
    /\ NoChoice(NumStops)
    /\ response' = TrivialLastMileResponse(request.stops)
    /\ strategy' = "trivial"
    /\ pc' = "responded"
    /\ UNCHANGED <<TRAINED_MODEL, suspended, endpoint, request, loopVars, oracle_calls,
                   ml_error, ran>>

\* A start at the last stop when there is no vehicle position.
StartAtLastStop(stops, vehicle_pos) ==
    IF HasVehicle(vehicle_pos) THEN vehicle_pos.lat ELSE stops[Len(stops)].lat

\* current_lat, current_lng of lines 498-503: the vehicle position, or the
\* coordinates of stops[0].
HeuristicStartAt(stops, vehicle_pos) ==
    IF HasVehicle(vehicle_pos) THEN vehicle_pos.lat ELSE stops[1].lat

\* Lines 497-509: the start position; the vehicle dict without 'lng' raises,
\* and the handler turns the exception into HTTP 500 (lines 654-656).
HeuristicStart ==
    /\ pc = "lm_heur"
    /\ ~NoChoice(NumStops)
    /\ ran' = ran \cup {"nn"}
    /\ IF VehicleRaises(request.vehiclePosition)
       THEN /\ response' = HTTPException
            /\ pc' = "responded"
            /\ UNCHANGED <<unvisited, current_loc>>
       ELSE /\ unvisited' = Range(Ids(request.stops))
            /\ current_loc' = HeuristicStartAt(request.stops, request.vehiclePosition)
            /\ pc' = "lm_loop"
            /\ UNCHANGED response
    /\ UNCHANGED <<TRAINED_MODEL, suspended, endpoint, request, remaining, optimized,
                   total_distance, cumulative_time, etas, iters, oracle_calls,
                   ml_error, strategy>>

\* One iteration of `while unvisited:` (lines 511-536).
HeuristicIter ==
    /\ pc = "lm_loop"
    /\ unvisited # {}
    /\ iters < IterCap
    /\ iters' = iters + 1
    /\ LET near == Nearest(request.stops, unvisited, current_loc)
           nearest_id == near[1]
           nearest_dist == near[2]
       IN IF NearestFound(nearest_id)
          THEN /\ optimized' = Append(optimized, nearest_id)
               /\ unvisited' = unvisited \ {nearest_id}
               /\ current_loc' = StopById(request.stops, nearest_id).lat
               /\ total_distance' = total_distance + nearest_dist
          ELSE UNCHANGED <<optimized, unvisited, current_loc, total_distance>>
    /\ UNCHANGED <<TRAINED_MODEL, suspended, pc, endpoint, request, remaining,
                   cumulative_time, etas, oracle_calls, ml_error, ran,
                   strategy, response>>

\* Lines 538-565: metrics and response once the loop has ended; an id of
\* currentSequence that no stop has raises, and the handler answers 500.
HeuristicFinish ==
    /\ pc = "lm_loop"
    /\ unvisited = {}
    /\ LET current_seq == CurrentSeq(request)
       IN IF SequenceDistanceRaises(current_seq, request.stops, request.vehiclePosition)
          THEN /\ response' = HTTPException
               /\ UNCHANGED strategy
          ELSE /\ strategy' = "nn"
               /\ response' = LastMileResponse(
                      optimized,
                      calculate_sequence_total_distance(
                          current_seq, request.stops, request.vehiclePosition),
                      total_distance,
                      LastMileHeuristicConfidence,
                      "Optimized using nearest-neighbor heuristic (ML model unavailable)")
    /\ pc' = "responded"
    /\ UNCHANGED <<TRAINED_MODEL, suspended, endpoint, request, loopVars, oracle_calls,
                   ml_error, ran>>

\* -------------------------------------------------------- reroute handler
\* POST /api/reroute/: the handler calls ml_reroute.
reroute ==
    /\ pc = "idle"
    /\ \E req \in RerouteRequests : request' = req
    /\ endpoint' = "reroute"
    /\ pc' = "rr_ml"
    /\ UNCHANGED <<TRAINED_MODEL, suspended, loopVars, oracle_calls, ml_error, ran,
                   strategy, response>>

\* ml_reroute: with or without a model, the body returns
\* heuristic_reroute(request); the model is not called.
ml_reroute ==
    /\ pc = "rr_ml"
    /\ pc' = "rr_heur"
    /\ UNCHANGED <<TRAINED_MODEL, suspended, endpoint, request, loopVars, oracle_calls,
                   ml_error, ran, strategy, response>>

\* The response of lines 121-128.
TrivialRerouteResponse(stops) ==
    [kind |-> "RerouteResponse",
     optimizedSequence |-> Ids(stops),
     estimatedETAs |-> [id \in Range(Ids(stops)) |-> 0],
     timeSavings |-> 0,
     confidence |-> 1000,
     method |-> "heuristic",
     reason |-> "Only one stop remaining"]

\* A threshold one stop lower.
UseExhaustiveBelow(n) == n < ExactLimit

\* No admission rule: every stop count goes to the exhaustive search.
UseExhaustiveAlways(n) == TRUE

\* `if len(stops) <= 6:`
UseExhaustive(n) == n <= ExactLimit

\* heuristic_reroute, lines 118-128.
RerouteTrivial ==
    /\ pc = "rr_heur"
    /\ NumStops <= 1
    /\ response' = TrivialRerouteResponse(request.stops)
    /\ strategy' = "trivial"
    /\ pc' = "responded"
    /\ UNCHANGED <<TRAINED_MODEL, suspended, endpoint, request, loopVars, oracle_calls,
                   ml_error, ran>>

\* heuristic_reroute, lines 131-132: exhaustive_search_reroute(request).
RerouteExhaustive ==
    /\ pc = "rr_heur"
    /\ NumStops > 1
    /\ UseExhaustive(NumStops)
    /\ response' = exhaustive_search_reroute(request)
    /\ ran' = ran \cup {"exact"}
    /\ strategy' = "exact"
    /\ pc' = "responded"
    /\ UNCHANGED <<TRAINED_MODEL, suspended, endpoint, request, loopVars, oracle_calls,
                   ml_error>>

\* heuristic_reroute, lines 135-142: the nearest-neighbour loop starts.
RerouteStart ==
    /\ pc = "rr_heur"
    /\ NumStops > 1
    /\ ~UseExhaustive(NumStops)
    /\ current_loc' = request.currentLocation
    /\ remaining' = request.stops
    /\ ran' = ran \cup {"nn"}
    /\ pc' = "rr_loop"
    /\ UNCHANGED <<TRAINED_MODEL, suspended, endpoint, request, unvisited, optimized,
                   total_distance, cumulative_time, etas, iters, oracle_calls,
                   ml_error, strategy, response>>

\* etas[next_stop.id] = cumulative_time
SetEta(d, id, t) == [k \in (DOMAIN d) \cup {id} |-> IF k = id THEN t ELSE d[k]]

\* One iteration of `while remaining:` (lines 144-168).
RerouteIter ==
    /\ pc = "rr_loop"
    /\ Len(remaining) > 0
    /\ iters < IterCap
    /\ iters' = iters + 1
    /\ LET near == NearestIdx(remaining, current_loc)
           next_stop == remaining[near[1]]
           t == cumulative_time
                  + TravelMinutes(near[2], get_traffic_multiplier(request.level))
                  + UnloadingMinutes(next_stop)
       IN /\ remaining' = RemoveAt(remaining, near[1])
          /\ optimized' = Append(optimized, next_stop.id)
          /\ cumulative_time' = t
          /\ etas' = SetEta(etas, next_stop.id, t)
          /\ current_loc' = next_stop.lat
    /\ UNCHANGED <<TRAINED_MODEL, suspended, pc, endpoint, request, unvisited,
                   total_distance, oracle_calls, ml_error, ran, strategy, response>>

\* Lines 170-177: the response once the loop has ended.
RerouteFinish ==
    /\ pc = "rr_loop"
    /\ Len(remaining) = 0
    /\ response' = [kind |-> "RerouteResponse",
                    optimizedSequence |-> optimized,
                    estimatedETAs |-> etas,
                    timeSavings |-> 0,
                    confidence |-> 600,
                    method |-> "heuristic",
                    reason |-> "Nearest-neighbor algorithm with traffic awareness"]
    /\ strategy' = "nn"
    /\ pc' = "responded"
    /\ UNCHANGED <<TRAINED_MODEL, suspended, endpoint, request, loopVars, oracle_calls,
                   ml_error, ran>>

\* ----------------------------------------------------------- ETA handler
\* currentSpeed in mph, the weather descriptions, and the stop lists.
Speeds == {0, 30}
Weathers == {"clear", "rain", "storm"}
EtaStopLists == UNION {RerouteLists(n) : n \in 0..(VarStops - 1)}
EtaRequests ==
    {[stops |-> s, currentLocation |-> l, currentSpeed |-> v, level |-> t,
      weather |-> w, vehiclePosition |-> NoVehicle, currentSequence |-> <<>>] :
        s \in EtaStopLists, l \in Lats, v \in Speeds, t \in Levels, w \in Weathers}

\* eta.TRAINED_MODEL: load_eta_model never assigns a model to it.
ETA_TRAINED_MODEL == None

\* traffic_multipliers.get(congestionLevel.lower(), 0.8), in percent.
EtaTrafficMult(level) ==
    CASE level = "none" -> 100
      [] level = "light" -> 90
      [] level = "moderate" -> 75
      [] level = "heavy" -> 50
      [] OTHER -> 80

\* weather_mult, in percent.
EtaWeatherMult(description) ==
    CASE description = "storm" -> 60
      [] description = "rain" -> 80
      [] OTHER -> 100

\* adjusted_speed = base_speed_kmh * traffic_mult * weather_mult, in metres
\* per hour, with base_speed_kmh = currentSpeed * 1.60934.
AdjustedSpeed(req) ==
    LET base_speed == (req.currentSpeed * 160934) \div 100
    IN (base_speed * EtaTrafficMult(req.level) * EtaWeatherMult(req.weather)) \div 10000

\* x / y of Python: raises ZeroDivisionError when y is 0.
Quotient(x, y) ==
    IF y = 0 THEN [raised |-> TRUE, value |-> 0]
    ELSE [raised |-> FALSE, value |-> x \div y]

\* A division without its guard.
Unguarded(adjusted_speed) == TRUE

\* `... if adjusted_speed > 0 else 0`
SpeedGuard(adjusted_speed) == adjusted_speed > 0

\* travel_time_minutes of one leg, in hundredths of a minute.
EtaTravelMinutes(distance_km, adjusted_speed) ==
    IF SpeedGuard(adjusted_speed)
    THEN Quotient(distance_km * 6000, adjusted_speed)
    ELSE [raised |-> FALSE, value |-> 0]

\* The for loop of fallback_eta_calculation from stop k on: the exception,
\* or the predictions and the cumulative time.
RECURSIVE EtaLoop(_, _, _, _, _)
EtaLoop(req, k, loc, cumulative, predictions) ==
    IF k > Len(req.stops)
    THEN [raised |-> FALSE, predictions |-> predictions, total |-> cumulative]
    ELSE LET stop == req.stops[k]
             travel == EtaTravelMinutes(calculate_distance_km(loc, stop.lat),
                                        AdjustedSpeed(req))
         IN IF travel.raised
            THEN [raised |-> TRUE, predictions |-> predictions, total |-> cumulative]
            ELSE LET t == cumulative + travel.value + 100 * stop.unload
                 IN EtaLoop(req, k + 1, stop.lat, t,
                            Append(predictions,
                                   [stopId |-> stop.id,
                                    estimatedArrivalMinutes |-> t,
                                    confidence |-> 600]))

\* fallback_eta_calculation(request); an exception reaches predict_eta,
\* which raises HTTP 500.
fallback_eta_calculation(req) ==
    LET out == EtaLoop(req, 1, req.currentLocation, 0, <<>>)
    IN IF out.raised THEN HTTPException
       ELSE [kind |-> "ETAResponse",
             predictions |-> out.predictions,
             totalEstimatedMinutes |-> out.total,
             modelConfidence |-> 600,
             fallbackUsed |-> TRUE]

\* POST /api/eta/predict: the handler calls ml_eta_prediction.
predict_eta ==
    /\ pc = "idle"
    /\ \E req \in EtaRequests : request' = req
    /\ endpoint' = "eta"
    /\ pc' = "eta_ml"
    /\ UNCHANGED <<TRAINED_MODEL, suspended, loopVars, oracle_calls, ml_error, ran,
                   strategy, response>>

\* ml_eta_prediction: with no ETA model, fallback_eta_calculation(request).
ml_eta_prediction ==
    /\ pc = "eta_ml"
    /\ ETA_TRAINED_MODEL = None
    /\ response' = fallback_eta_calculation(request)
    /\ pc' = "eta_done"
    /\ UNCHANGED <<TRAINED_MODEL, suspended, endpoint, request, loopVars,
                   oracle_calls, ml_error, ran, strategy>>

\* A handler that assigns None to TRAINED_MODEL while it answers.
health_check_resets ==
    /\ pc = "idle"
    /\ endpoint' = "health"
    /\ response' = [kind |-> "Health", status |-> "healthy", model_loaded |-> FALSE]
    /\ TRAINED_MODEL' = None
    /\ pc' = "health_done"
    /\ UNCHANGED <<suspended, request, loopVars, oracle_calls, ml_error, ran,
                   strategy>>

\* GET /api/reroute/health: reports whether TRAINED_MODEL is set.
health_check ==
    /\ pc = "idle"
    /\ endpoint' = "health"
    /\ response' = [kind |-> "Health", status |-> "healthy",
                    model_loaded |-> TRAINED_MODEL # None]
    /\ pc' = "health_done"
    /\ UNCHANGED <<TRAINED_MODEL, suspended, request, loopVars, oracle_calls, ml_error,
                   ran, strategy>>

\* The handler has answered; the process waits for the next request.
NextRequest ==
    /\ pc \in {"responded", "health_done", "eta_done"}
    /\ pc' = "idle"
    /\ endpoint' = "none"
    /\ request' = NoRequest
    /\ unvisited' = {}
    /\ remaining' = <<>>
    /\ optimized' = <<>>
    /\ current_loc' = 0
    /\ total_distance' = 0
    /\ cumulative_time' = 0
    /\ etas' = <<>>
    /\ iters' = 0
    /\ oracle_calls' = 0
    /\ ml_error' = "none"
    /\ ran' = {}
    /\ strategy' = "none"
    /\ response' = NoResponse
    /\ UNCHANGED <<TRAINED_MODEL, suspended>>

Next ==
    \/ startup_event
    \/ optimize_last_mile
    \/ MlNotTried
    \/ MlGraphRaises
    \/ MlOracleRaises
    \/ MlAnswers
    \/ HeuristicTrivial
    \/ HeuristicStart
    \/ HeuristicIter
    \/ HeuristicFinish
    \/ reroute
    \/ ml_reroute
    \/ RerouteTrivial
    \/ RerouteExhaustive
    \/ RerouteStart
    \/ RerouteIter
    \/ RerouteFinish
    \/ health_check
    \/ predict_eta
    \/ ml_eta_prediction
    \/ NextRequest

Spec == Init /\ [][Next]_vars

\* ================================================================ claims
Responded == pc = "responded"
Answered == Responded /\ response.kind \in {"RerouteResponse", "LastMileResponse"}

\* The optimized sequence, the method and the justification of a response.
SequenceOf(r) ==
    IF r.kind = "RerouteResponse" THEN r.optimizedSequence ELSE r.optimized_sequence
MethodOf(r) == IF r.kind = "RerouteResponse" THEN r.method ELSE "no such field"
JustificationOf(r) == IF r.kind = "RerouteResponse" THEN r.reason ELSE r.reasoning

C2_NeverRaises == Responded => response.kind # "HTTPException"

\* C3: with a model loaded whose call raises (or whose feature construction
\* raises), 2 to 6 stops are answered by the exhaustive search, more than 6
\* by the nearest-neighbour walk, never by the model, and nothing escapes.
C3_DowngradeBySize ==
    (Responded /\ TRAINED_MODEL # None /\ ml_error \in {"oracle", "build_graph"}) =>
        /\ response.kind # "HTTPException"
        /\ strategy # "ml"
        /\ (NumStops >= 2 /\ NumStops <= ExactLimit) => strategy = "exact"
        /\ NumStops > ExactLimit => strategy = "nn"

RECURSIVE LeastTotalTime(_, _, _, _, _)
LeastTotalTime(stops, rest, loc, pct, total_time) ==
    IF rest = {} THEN total_time
    ELSE LET via(i) == LeastTotalTime(
                           stops, rest \ {i}, stops[i].lat, pct,
                           total_time
                             + TravelMinutes(calculate_distance_km(loc, stops[i].lat), pct)
                             + UnloadingMinutes(stops[i]))
             totals == {via(i) : i \in rest}
         IN CHOOSE t \in totals : \A u \in totals : t <= u

\* The total time of a reroute response: the ETA of its last stop.
ResponseTotalTime(r) == r.estimatedETAs[r.optimizedSequence[Len(r.optimizedSequence)]]

\* C6: for 2 to 6 stops, the total time (travel at 80 km/h times the traffic
\* multiplier plus unloading, from the current location) of the sequence
\* exhaustive_search_reroute returns is at most that of every ordering of
\* the same stops: it equals the least total time over all orderings.
C6_ExactIsOptimal ==
    (Answered /\ strategy = "exact") =>
        /\ NumStops >= 2 /\ NumStops <= ExactLimit
        /\ ResponseTotalTime(response) =
             LeastTotalTime(request.stops, 1..NumStops, request.currentLocation,
                            get_traffic_multiplier(request.level), 0)

\* C6 witness: the exhaustive search answered with an order other than the
\* input's, and the input order would have taken longer.
C6_Witness ==
    /\ Answered
    /\ strategy = "exact"
    /\ DistinctIds(request.stops)
    /\ response.optimizedSequence # Ids(request.stops)
    /\ ResponseTotalTime(response) <
         TotalTime(request.stops, request.currentLocation,
                   get_traffic_multiplier(request.level))

\* C7: a request of one stop is answered, on both entry points and with or
\* without a model, by the sequence of that one id, zero savings and
\* confidence 1.0; an empty stop list by the empty sequence, likewise.
C7_TrivialResult ==
    (Responded /\ NumStops <= 1) =>
        /\ Answered
        /\ SequenceOf(response) = Ids(request.stops)
        /\ response.confidence = 1000
        /\ endpoint = "reroute" => response.timeSavings = 0
        /\ endpoint = "last_mile" =>
             /\ response.time_savings_minutes = 0
             /\ response.distance_savings_miles = 0

\* C7 witness: one stop answered on the last-mile entry point with the
\* model loaded.
C7_Witness ==
    /\ Answered
    /\ NumStops = 1
    /\ endpoint = "last_mile"
    /\ TRAINED_MODEL # None
    /\ SequenceOf(response) = <<request.stops[1].id>>

\* C8: the confidence of every result lies in [0, 1], and the confidence of
\* a result of the model lies in [0, 0.95].
C8_ConfidenceRange ==
    Answered =>
        /\ response.confidence >= 0
        /\ response.confidence <= 1000
        /\ strategy = "ml" => response.confidence <= 950

\* C8 witness: the model answered with a score dispersion that the cap cuts
\* to 0.95 (another answer of the model stays below it: 0.7 for equal scores).
C8_Witness ==
    /\ Answered
    /\ strategy = "ml"
    /\ response.confidence = 950

\* C9 as claimed: each iteration of the selection loops removes exactly one
\* stop, so that after k iterations n - k stops are left, and a result of
\* the heuristic solver comes after exactly n iterations.
C9_OneStopPerIteration ==
    DistinctIds(request.stops) =>
        /\ pc = "lm_loop" => iters + Cardinality(unvisited) = NumStops
        /\ pc = "rr_loop" => iters + Len(remaining) = NumStops
        /\ (Answered /\ strategy = "nn") => iters = NumStops

\* The position the last selection of the last-mile loop was made from.
SelectedFrom ==
    IF Len(optimized) > 1
    THEN StopById(request.stops, optimized[Len(optimized) - 1]).lat
    ELSE IF HasVehicle(request.vehiclePosition)
         THEN request.vehiclePosition.lat
         ELSE request.stops[1].lat

\* Stops i and j are both unvisited and equally far, at distance d, from
\* current_loc, and of the two only i is high-priority.
EquidistantPair(i, j, d) ==
    /\ i # j
    /\ request.stops[i].id \in unvisited
    /\ request.stops[j].id \in unvisited
    /\ request.stops[i].prio = 1
    /\ request.stops[j].prio # 1
    /\ calculate_distance_km(current_loc, request.stops[i].lat) = d
    /\ calculate_distance_km(current_loc, request.stops[j].lat) = d

\* A selection of the last-mile loop that picks stop j.
Selects(j) ==
    /\ pc = "lm_loop"
    /\ iters' = iters + 1
    /\ unvisited' = unvisited \ {request.stops[j].id}
    /\ unvisited' # unvisited

Distances == {calculate_distance_km(a, b) : a, b \in Lats}

\* C10 as claimed: of two unvisited stops at the same distance d >= 0 from
\* the current position, one of them high-priority, the loop never selects
\* the other one while the high-priority one is unvisited.
C10_PriorityFirst ==
    [][\A i, j \in 1..NumStops : \A d \in Distances :
          (DistinctIds(request.stops) /\ EquidistantPair(i, j, d))
              => ~Selects(j)]_vars

\* C10 amended: the same for d > 0; at d = 0 the discounted distance equals
\* the plain one and the earlier stop of the input is selected.
C10_PriorityFirstWhenApart ==
    [][\A i, j \in 1..NumStops : \A d \in Distances \ {0} :
          (DistinctIds(request.stops) /\ EquidistantPair(i, j, d))
              => ~Selects(j)]_vars

\* C10 witness: the loop has just selected a high-priority stop although a
\* normal stop earlier in the input, still unvisited, was equally far (d > 0)
\* from the position the selection was made from.
C10_Witness ==
    /\ pc = "lm_loop"
    /\ Len(optimized) >= 1
    /\ DistinctIds(request.stops)
    /\ \E i, j \in 1..NumStops :
          /\ j < i
          /\ request.stops[i].id = optimized[Len(optimized)]
          /\ request.stops[i].prio = 1
          /\ request.stops[j].prio # 1
          /\ request.stops[j].id \in unvisited
          /\ calculate_distance_km(SelectedFrom, request.stops[j].lat) > 0
          /\ calculate_distance_km(SelectedFrom, request.stops[j].lat)
               = calculate_distance_km(SelectedFrom, request.stops[i].lat)

\* The length in miles of a sequence of the request's stops, from the start
\* position of the request.
RouteMiles(sequence) ==
    calculate_sequence_total_distance(sequence, request.stops, request.vehiclePosition)

\* C11: in every last-mile result, of the model or of the heuristic, the
\* distance savings are max(0, length of the baseline sequence - length of
\* the optimized sequence), never negative, and the time savings are twice
\* the distance savings.
C11_SavingsFromDistances ==
    (/\ Answered
     /\ endpoint = "last_mile"
     /\ DistinctIds(request.stops)
     /\ Range(CurrentSeq(request)) = Range(Ids(request.stops))) =>
        /\ response.distance_savings_miles >= 0
        /\ response.distance_savings_miles =
             Max(0, RouteMiles(CurrentSeq(request))
                      - RouteMiles(response.optimized_sequence))
        /\ response.time_savings_minutes = 2 * response.distance_savings_miles

\* ------------------------------------------------- haversine, in full
\* The arithmetic of calculate_distance_km on coordinates off the meridian,
\* in fixed point: One stands for 1.0 and every product is rounded to the
\* nearest unit, as every floating-point operation is rounded to the
\* nearest representable number.
One == 10000

\* Angles are in whole degrees; a coordinate is [lat |-> .., lng |-> ..].
GridLats == {-8, 0, 8}
GridLngs == {-180, -90, 0, 90, 180}
Coordinates == [lat : GridLats, lng : GridLngs]

\* sin of 0..90 degrees, rounded to the nearest unit of One.
SinTable ==
    <<
       0, 175, 349, 523, 698, 872, 1045, 1219, 1392, 1564,
       1736, 1908, 2079, 2250, 2419, 2588, 2756, 2924, 3090, 3256,
       3420, 3584, 3746, 3907, 4067, 4226, 4384, 4540, 4695, 4848,
       5000, 5150, 5299, 5446, 5592, 5736, 5878, 6018, 6157, 6293,
       6428, 6561, 6691, 6820, 6947, 7071, 7193, 7314, 7431, 7547,
       7660, 7771, 7880, 7986, 8090, 8192, 8290, 8387, 8480, 8572,
       8660, 8746, 8829, 8910, 8988, 9063, 9135, 9205, 9272, 9336,
       9397, 9455, 9511, 9563, 9613, 9659, 9703, 9744, 9781, 9816,
       9848, 9877, 9903, 9925, 9945, 9962, 9976, 9986, 9994, 9998,
       10000
    >>

\* sin(radians(deg)) for -360 <= deg <= 360: odd, and mirrored about 90.
SinDeg(deg) ==
    LET x == Abs(deg)
        y == IF x > 180 THEN x - 180 ELSE x
        z == IF y > 90 THEN 180 - y ELSE y
        v == SinTable[z + 1]
        w == IF x > 180 THEN 0 - v ELSE v
    IN IF deg < 0 THEN 0 - w ELSE w

\* cos(radians(deg)) for -90 <= deg <= 90.
CosDeg(deg) == SinTable[(90 - Abs(deg)) + 1]

\* x * y for x * y >= 0, rounded to the nearest unit.
Mul(x, y) == (2 * (x * y) + One) \div (2 * One)

\* a = sin(dlat/2)**2 + cos(lat1) * cos(lat2) * sin(dlon/2)**2
HaversineA(loc1, loc2) ==
    LET dlat == loc2.lat - loc1.lat
        dlon == loc2.lng - loc1.lng
        sin_dlat == SinDeg(dlat \div 2)
        sin_dlon == SinDeg(dlon \div 2)
    IN Mul(sin_dlat, sin_dlat)
         + Mul(Mul(CosDeg(loc1.lat), CosDeg(loc2.lat)), Mul(sin_dlon, sin_dlon))

\* sqrt(1-a) raises ValueError (math domain error) when 1 - a is negative.
SqrtRaises(a) == One - a < 0

\* atan2(sqrt(a), sqrt(1-a)), in whole degrees rounded down: the angle whose
\* squared sine is a.
HalfAngle(a) ==
    LET fits == {h \in 0..90 : Mul(SinDeg(h), SinDeg(h)) <= a}
    IN CHOOSE h \in fits : \A g \in fits : g <= h

\* calculate_distance_km(loc1, loc2) on two coordinates: the exception, or
\* 6371.0 * c in metres.
calculate_distance_km_at(loc1, loc2) ==
    LET a == HaversineA(loc1, loc2)
    IN IF SqrtRaises(a)
       THEN [kind |-> "ValueError", km |-> 0]
       ELSE [kind |-> "float", km |-> 2 * HalfAngle(a) * MetresPerDegree]

\* A call of calculate_distance_km on its own: the two arguments are drawn
\* at the start, the call stores what it returns or raises.
InitDistance ==
    /\ TRAINED_MODEL = None
    /\ pc = "distance_call"
    /\ endpoint = "none"
    /\ \E loc1 \in Coordinates, loc2 \in Coordinates :
          request = [loc1 |-> loc1, loc2 |-> loc2]
    /\ unvisited = {}
    /\ remaining = <<>>
    /\ optimized = <<>>
    /\ current_loc = 0
    /\ total_distance = 0
    /\ cumulative_time = 0
    /\ etas = <<>>
    /\ iters = 0
    /\ oracle_calls = 0
    /\ ml_error = "none"
    /\ ran = {}
    /\ strategy = "none"
    /\ response = NoResponse
    /\ suspended = <<>>

DistanceCall ==
    /\ pc = "distance_call"
    /\ response' = calculate_distance_km_at(request.loc1, request.loc2)
    /\ pc' = "distance_done"
    /\ UNCHANGED <<TRAINED_MODEL, suspended, endpoint, request, loopVars, oracle_calls,
                   ml_error, ran, strategy>>

SpecDistance == InitDistance /\ [][DistanceCall]_vars

\* C12: for all coordinate pairs a, b the call returns a number (it does
\* not raise), the number is non-negative, distance(a, b) = distance(b, a),
\* and distance(a, a) = 0.
C12_DistanceContract ==
    pc = "distance_done" =>
        /\ response.kind = "float"
        /\ response.km >= 0
        /\ response = calculate_distance_km_at(request.loc2, request.loc1)
        /\ request.loc1 = request.loc2 => response.km = 0

\* C13: TRAINED_MODEL changes only in a step of the startup load, from
\* unset to loaded; no step of a request handler (reroute,
\* optimize_last_mile, health_check) changes it, and once loaded it is
\* never unset again.
C13_LoadedOnceAtStartup ==
    [][TRAINED_MODEL' # TRAINED_MODEL =>
          /\ pc = "boot"
          /\ TRAINED_MODEL = None
          /\ TRAINED_MODEL' = "loaded"]_vars

\* C13 witness: with the model loaded at startup, a handler (the health
\* check) has run and reports the model as loaded.
C13_Witness ==
    /\ TRAINED_MODEL = "loaded"
    /\ pc = "health_done"
    /\ response.model_loaded

\* ------------------------------------------------ a request run alone
\* What each handler returns for a request when nothing else runs: the same
\* code as the step actions, as functions of the request and the handle.
RECURSIVE LastMileWalk(_, _, _, _, _)
LastMileWalk(stops, unv, loc, opt, total) ==
    IF unv = {} THEN [stuck |-> FALSE, optimized |-> opt, total_distance |-> total]
    ELSE LET near == Nearest(stops, unv, loc)
         IN IF NearestFound(near[1])
            THEN LastMileWalk(stops, unv \ {near[1]}, StopById(stops, near[1]).lat,
                              Append(opt, near[1]), total + near[2])
            ELSE [stuck |-> TRUE, optimized |-> opt, total_distance |-> total]

\* heuristic_optimize_last_mile(request): the responses it can end with
\* (none when the loop does not end).
HeuristicAlone(req) ==
    IF NoChoice(Len(req.stops)) THEN {TrivialLastMileResponse(req.stops)}
    ELSE IF VehicleRaises(req.vehiclePosition) THEN {HTTPException}
    ELSE LET start == HeuristicStartAt(req.stops, req.vehiclePosition)
             walk == LastMileWalk(req.stops, Range(Ids(req.stops)), start, <<>>, 0)
             current_seq == CurrentSeq(req)
         IN IF walk.stuck THEN {}
            ELSE IF SequenceDistanceRaises(current_seq, req.stops, req.vehiclePosition)
            THEN {HTTPException}
            ELSE {LastMileResponse(
                      walk.optimized,
                      calculate_sequence_total_distance(
                          current_seq, req.stops, req.vehiclePosition),
                      walk.total_distance,
                      LastMileHeuristicConfidence,
                      "Optimized using nearest-neighbor heuristic (ML model unavailable)")}

\* ml_optimize_last_mile(request) with the handle model.
LastMileAlone(req, model) ==
    IF MlGuard(model, Len(req.stops)) \/ VehicleRaises(req.vehiclePosition)
    THEN HeuristicAlone(req)
    ELSE LET current_seq == CurrentSeq(req)
             answers ==
                 {LastMileResponse(
                      IdsOfRoute(req.stops,
                                 decode_route_from_scores(edge_scores, Len(req.stops))),
                      calculate_sequence_total_distance(
                          current_seq, req.stops, req.vehiclePosition),
                      calculate_sequence_total_distance(
                          IdsOfRoute(req.stops,
                                     decode_route_from_scores(edge_scores, Len(req.stops))),
                          req.stops, req.vehiclePosition),
                      MlConfidence(ScoreStd(edge_scores, Len(req.stops))),
                      "Optimized using Graph Neural Network (GNN) model with 87.5% accuracy")
                    : edge_scores \in OracleOutputs(Len(req.stops))}
         IN IF SequenceDistanceRaises(current_seq, req.stops, req.vehiclePosition)
            THEN HeuristicAlone(req)
            ELSE HeuristicAlone(req) \cup answers

RECURSIVE RerouteWalk(_, _, _, _, _, _)
RerouteWalk(rem, loc, pct, opt, t, e) ==
    IF Len(rem) = 0 THEN [optimized |-> opt, etas |-> e]
    ELSE LET near == NearestIdx(rem, loc)
             next_stop == rem[near[1]]
             t2 == t + TravelMinutes(near[2], pct) + UnloadingMinutes(next_stop)
         IN RerouteWalk(RemoveAt(rem, near[1]), next_stop.lat, pct,
                        Append(opt, next_stop.id), t2, SetEta(e, next_stop.id, t2))

\* heuristic_reroute(request), which is what ml_reroute returns.
RerouteAlone(req) ==
    IF Len(req.stops) <= 1 THEN {TrivialRerouteResponse(req.stops)}
    ELSE IF UseExhaustive(Len(req.stops)) THEN {exhaustive_search_reroute(req)}
    ELSE LET walk == RerouteWalk(req.stops, req.currentLocation,
                                 get_traffic_multiplier(req.level), <<>>, 0, <<>>)
         IN {[kind |-> "RerouteResponse",
              optimizedSequence |-> walk.optimized,
              estimatedETAs |-> walk.etas,
              timeSavings |-> 0,
              confidence |-> 600,
              method |-> "heuristic",
              reason |-> "Nearest-neighbor algorithm with traffic awareness"]}

Alone(ep, req, model) ==
    IF ep = "last_mile" THEN LastMileAlone(req, model) ELSE RerouteAlone(req)

\* ------------------------------------------------ two requests in flight
\* The locals of the running request, as a frame.
Frame ==
    [pc |-> pc, endpoint |-> endpoint, request |-> request,
     unvisited |-> unvisited, remaining |-> remaining, optimized |-> optimized,
     current_loc |-> current_loc, total_distance |-> total_distance,
     cumulative_time |-> cumulative_time, etas |-> etas, iters |-> iters,
     oracle_calls |-> oracle_calls, ml_error |-> ml_error, ran |-> ran,
     strategy |-> strategy, response |-> response]

\* The frame of a request whose handler has just been entered.
NewFrame(ep, req) ==
    [pc |-> IF ep = "last_mile" THEN "lm_ml" ELSE "rr_ml",
     endpoint |-> ep, request |-> req,
     unvisited |-> {}, remaining |-> <<>>, optimized |-> <<>>,
     current_loc |-> 0, total_distance |-> 0, cumulative_time |-> 0,
     etas |-> <<>>, iters |-> 0, oracle_calls |-> 0, ml_error |-> "none",
     ran |-> {}, strategy |-> "none", response |-> NoResponse]

\* The requests served side by side: one for each path of the two handlers.
ConcurrentCalls ==
    {NewFrame("last_mile", LastMileRequest(Layout(1, 0, 0, 0), NoVehicle, "plain")),
     NewFrame("last_mile", LastMileRequest(Layout(2, 0, 1, 1),
                                           [kind |-> "ok", lat |-> 2], "reversed")),
     NewFrame("last_mile", LastMileRequest(Layout(3, 1, 1, 0), NoVehicle, "plain")),
     NewFrame("last_mile", LastMileRequest(Layout(2, 0, 1, 0), BadVehicle, "plain")),
     NewFrame("reroute", RerouteRequest(Layout(1, 0, 0, 1), 0, "heavy", "plain")),
     NewFrame("reroute", RerouteRequest(Layout(3, 0, 1, 1), 2, "heavy", "plain")),
     NewFrame("reroute", RerouteRequest(Layout(ExactLimit + 1, 0, 1, 1), 1,
                                        "gridlock", "plain"))}

\* The running request's locals are those of frame f.
Running(f) ==
    /\ pc = f.pc
    /\ endpoint = f.endpoint
    /\ request = f.request
    /\ unvisited = f.unvisited
    /\ remaining = f.remaining
    /\ optimized = f.optimized
    /\ current_loc = f.current_loc
    /\ total_distance = f.total_distance
    /\ cumulative_time = f.cumulative_time
    /\ etas = f.etas
    /\ iters = f.iters
    /\ oracle_calls = f.oracle_calls
    /\ ml_error = f.ml_error
    /\ ran = f.ran
    /\ strategy = f.strategy
    /\ response = f.response

\* After startup, with the handle set or not, two handlers have been entered.
InitConcurrent ==
    /\ TRAINED_MODEL \in {None, "loaded"}
    /\ \E f \in ConcurrentCalls, g \in ConcurrentCalls :
          /\ Running(f)
          /\ suspended = g

\* A switch that leaves the loop's locals of the running request in place
\* for the other request.
SwitchSharingLocals ==
    /\ suspended' = Frame
    /\ pc' = suspended.pc
    /\ endpoint' = suspended.endpoint
    /\ request' = suspended.request
    /\ oracle_calls' = suspended.oracle_calls
    /\ ml_error' = suspended.ml_error
    /\ ran' = suspended.ran
    /\ strategy' = suspended.strategy
    /\ response' = suspended.response
    /\ UNCHANGED <<TRAINED_MODEL, loopVars>>

\* The other request runs on: each call has its own locals (Python frames),
\* and the module-level handle is the only state both see.
Switch ==
    /\ suspended' = Frame
    /\ pc' = suspended.pc
    /\ endpoint' = suspended.endpoint
    /\ request' = suspended.request
    /\ unvisited' = suspended.unvisited
    /\ remaining' = suspended.remaining
    /\ optimized' = suspended.optimized
    /\ current_loc' = suspended.current_loc
    /\ total_distance' = suspended.total_distance
    /\ cumulative_time' = suspended.cumulative_time
    /\ etas' = suspended.etas
    /\ iters' = suspended.iters
    /\ oracle_calls' = suspended.oracle_calls
    /\ ml_error' = suspended.ml_error
    /\ ran' = suspended.ran
    /\ strategy' = suspended.strategy
    /\ response' = suspended.response
    /\ UNCHANGED TRAINED_MODEL

NextConcurrent ==
    \/ MlNotTried
    \/ MlGraphRaises
    \/ MlOracleRaises
    \/ MlAnswers
    \/ HeuristicTrivial
    \/ HeuristicStart
    \/ HeuristicIter
    \/ HeuristicFinish
    \/ ml_reroute
    \/ RerouteTrivial
    \/ RerouteExhaustive
    \/ RerouteStart
    \/ RerouteIter
    \/ RerouteFinish
    \/ Switch

SpecConcurrent == InitConcurrent /\ [][NextConcurrent]_vars

\* C14: whatever the interleaving of the steps of two requests in flight,
\* each request that ends does so with a result it has when run alone with
\* the same inputs and the same handle.
C14_Independent ==
    /\ pc = "responded" => response \in Alone(endpoint, request, TRAINED_MODEL)
    /\ suspended.pc = "responded" =>
          suspended.response
              \in Alone(suspended.endpoint, suspended.request, TRAINED_MODEL)

\* C14 witness: a last-mile request has ended with the route of its
\* nearest-neighbour walk while the walk of a reroute request, begun before
\* that, is still under way.
C14_Witness ==
    /\ pc = "responded"
    /\ endpoint = "last_mile"
    /\ strategy = "nn"
    /\ response.kind = "LastMileResponse"
    /\ suspended.endpoint = "reroute"
    /\ suspended.pc = "rr_loop"
    /\ suspended.iters >= 1
    /\ Len(suspended.remaining) >= 1

\* The position a request starts from, where it has one.
StartOf(req) ==
    IF endpoint = "last_mile"
    THEN IF HasVehicle(req.vehiclePosition) THEN req.vehiclePosition.lat
         ELSE IF Len(req.stops) > 0 THEN req.stops[1].lat ELSE 0
    ELSE req.currentLocation

\* A request whose only peculiarity is its degeneracy: its ids are distinct
\* and non-empty, its vehicle position (if any) is a coordinate, and its
\* currentSequence (if any) names its stops.
WellFormed(req) ==
    /\ DistinctIds(req.stops)
    /\ \A i \in 1..Len(req.stops) : req.stops[i].id # ""
    /\ ~VehicleRaises(req.vehiclePosition)
    /\ \A k \in 1..Len(req.currentSequence) : HasStop(req.stops, req.currentSequence[k])

EmptyStopList(req) == Len(req.stops) = 0
AllCoincide(req) ==
    /\ Len(req.stops) > 1
    /\ \A i \in 1..Len(req.stops) : req.stops[i].lat = StartOf(req)
ZeroSpeed(req) == endpoint = "eta" /\ req.currentSpeed = 0

Degenerate(req) == EmptyStopList(req) \/ AllCoincide(req) \/ ZeroSpeed(req)

\* C15: an empty stop list, stops that all lie where the route starts, and
\* a current speed of zero are each answered by a normal result on the three
\* handlers: no exception (no division by zero) reaches the caller, and the
\* selection loops still remove one stop per iteration.
C15_DegenerateAnswered ==
    (WellFormed(request) /\ Degenerate(request)) =>
        /\ pc = "responded" => response.kind \in {"RerouteResponse", "LastMileResponse"}
        /\ pc = "eta_done" =>
              /\ response.kind = "ETAResponse"
              /\ Len(response.predictions) = NumStops
        /\ pc = "lm_loop" => iters + Cardinality(unvisited) = NumStops
        /\ pc = "rr_loop" => iters + Len(remaining) = NumStops

\* C15 witness: the ETA fallback has answered a request of two stops at a
\* current speed of zero.
C15_Witness ==
    /\ pc = "eta_done"
    /\ request.currentSpeed = 0
    /\ NumStops = 2
    /\ request.stops[1].lat # request.currentLocation
    /\ response.kind = "ETAResponse"
    /\ response.fallbackUsed

\* C16: with a model loaded, more than one stop, and the model's call and
\* the decoding not raising, the result returned on either entry point is
\* the learned one: its sequence is the greedy decode of a score matrix of
\* the model, the model was called, and no other solver was entered.
C16_LearnedResult ==
    (Answered /\ TRAINED_MODEL # None /\ NumStops > 1
       /\ DistinctIds(request.stops)
       /\ ml_error \notin {"oracle", "build_graph"}) =>
        /\ strategy = "ml"
        /\ ran = {"ml"}
        /\ oracle_calls >= 1
        /\ \E edge_scores \in OracleOutputs(NumStops) :
              SequenceOf(response) =
                  IdsOfRoute(request.stops,
                             decode_route_from_scores(edge_scores, NumStops))

\* The effective distance as the specification words it: the distance times
\* 0.8 for a high-priority stop, the distance otherwise.
DiscountedDistance(loc, stop) ==
    LET d == calculate_distance_km(loc, stop.lat)
    IN IF stop.prio = 1 THEN (d * 4) \div 5 ELSE d

\* The stop a step of a selection loop has just appended to the route.
Selected == StopById(request.stops, optimized'[Len(optimized')])

\* Vehicle at 0 degrees, stop A one degree and stop B three degrees away,
\* neither high-priority, in both input orders.
ExampleA == [id |-> "A", lat |-> 1, unload |-> 0, prio |-> 0]
ExampleB == [id |-> "B", lat |-> 3, unload |-> 0, prio |-> 0]
ExampleOrder(stops) == LastMileWalk(stops, {"A", "B"}, 0, <<>>, 0).optimized

\* C17: the stop a step of the heuristic solver selects (last-mile loop and
\* reroute loop) has the least effective distance from the current position
\* among the unvisited stops, the effective distance being the distance
\* times 0.8 for a high-priority stop; and for the vehicle at 0 with A at
\* distance 1 and B at distance 3 the order is A, B.
C17_SelectsNearest ==
    [][/\ ExampleOrder(<<ExampleA, ExampleB>>) = <<"A", "B">>
       /\ ExampleOrder(<<ExampleB, ExampleA>>) = <<"A", "B">>
       /\ (pc = "lm_loop" /\ DistinctIds(request.stops)
             /\ Len(optimized') = Len(optimized) + 1) =>
            \A j \in 1..NumStops :
                request.stops[j].id \in unvisited =>
                    DiscountedDistance(current_loc, Selected)
                        <= DiscountedDistance(current_loc, request.stops[j])
       /\ (pc = "rr_loop" /\ DistinctIds(request.stops)
             /\ Len(optimized') = Len(optimized) + 1) =>
            \A j \in 1..Len(remaining) :
                DiscountedDistance(current_loc, Selected)
                    <= DiscountedDistance(current_loc, remaining[j])]_vars

\* C17 witness: the reroute loop has made its first selection, and it is
\* not the first stop of the input, which is farther from the start.
C17_Witness ==
    /\ pc = "rr_loop"
    /\ Len(optimized) = 1
    /\ DistinctIds(request.stops)
    /\ optimized[1] # request.stops[1].id
    /\ calculate_distance_km(request.currentLocation, request.stops[1].lat)
         > calculate_distance_km(request.currentLocation,
                                 StopById(request.stops, optimized[1]).lat)

\* The position of the selected stop in the input list.
IndexOf(stop) == CHOOSE i \in 1..NumStops : request.stops[i] = stop

\* C18: when several unvisited stops share the least effective distance at
\* a step of the heuristic solver (last-mile loop and reroute loop), the
\* step selects the one that comes first in the input list.
C18_FirstOfEquals ==
    [][(pc \in {"lm_loop", "rr_loop"} /\ DistinctIds(request.stops)
          /\ Len(optimized') = Len(optimized) + 1) =>
         \A j \in 1..NumStops :
            (/\ pc = "lm_loop" => request.stops[j].id \in unvisited
             /\ pc = "rr_loop" => \E k \in 1..Len(remaining) :
                                     remaining[k] = request.stops[j]
             /\ DiscountedDistance(current_loc, request.stops[j])
                  = DiscountedDistance(current_loc, Selected))
                => IndexOf(Selected) <= j]_vars

\* C18 witness: the last-mile loop has selected a stop although a stop
\* later in the input, at another place and still unvisited, had the same
\* effective distance from the position the selection was made from.
C18_Witness ==
    /\ pc = "lm_loop"
    /\ Len(optimized) >= 1
    /\ DistinctIds(request.stops)
    /\ \E i, j \in 1..NumStops :
          /\ i < j
          /\ request.stops[i].id = optimized[Len(optimized)]
          /\ request.stops[j].id \in unvisited
          /\ request.stops[i].lat # request.stops[j].lat
          /\ DiscountedDistance(SelectedFrom, request.stops[i])
               = DiscountedDistance(SelectedFrom, request.stops[j])

\* Time spent after visiting stops[i] from loc with total_time already spent.
TimeAfter(stops, i, loc, pct, total_time) ==
    total_time + TravelMinutes(calculate_distance_km(loc, stops[i].lat), pct)
               + UnloadingMinutes(stops[i])

\* The positions of rest that can come next on an ordering of rest which,
\* started at loc with total_time spent, ends with the total time target.
OptimalFirsts(stops, rest, loc, pct, total_time, target) ==
    {i \in rest :
        LeastTotalTime(stops, rest \ {i}, stops[i].lat, pct,
                       TimeAfter(stops, i, loc, pct, total_time)) = target}

\* The lexicographically smallest, by position in stops, of the orderings
\* of rest that end with the total time target (the least one).
RECURSIVE LexLeastOptimal(_, _, _, _, _, _)
LexLeastOptimal(stops, rest, loc, pct, total_time, target) ==
    IF rest = {} THEN <<>>
    ELSE LET firsts == OptimalFirsts(stops, rest, loc, pct, total_time, target)
             i == CHOOSE a \in firsts : \A b \in firsts : a <= b
         IN <<i>> \o LexLeastOptimal(stops, rest \ {i}, stops[i].lat, pct,
                                     TimeAfter(stops, i, loc, pct, total_time),
                                     target)

\* The whole request's least total time and smallest optimal ordering.
LeastOfRequest ==
    LeastTotalTime(request.stops, 1..NumStops, request.currentLocation,
                   get_traffic_multiplier(request.level), 0)
FirstOptimalOrdering ==
    LexLeastOptimal(request.stops, 1..NumStops, request.currentLocation,
                    get_traffic_multiplier(request.level), 0, LeastOfRequest)

\* C19: the sequence exhaustive_search_reroute returns is the ids of the
\* lexicographically smallest, by input position, of the orderings whose
\* total time is the least; being equal to a value computed from the input
\* list alone, it is a function of that list.
C19_FirstMinimumKept ==
    (Answered /\ strategy = "exact") =>
        response.optimizedSequence =
            [k \in 1..NumStops |-> request.stops[FirstOptimalOrdering[k]].id]

\* C19 witness: the exhaustive search answered a request with distinct ids
\* in which orderings that start with different stops reach the least
\* total time, and the answer starts with the earlier of those stops
\* although it is not the first stop of the input.
C19_Witness ==
    /\ Answered
    /\ strategy = "exact"
    /\ DistinctIds(request.stops)
    /\ LET firsts == OptimalFirsts(request.stops, 1..NumStops,
                                   request.currentLocation,
                                   get_traffic_multiplier(request.level), 0,
                                   LeastOfRequest)
       IN /\ Cardinality(firsts) >= 2
          /\ 1 \notin firsts
          /\ \E i \in firsts :
                /\ \A j \in firsts : i <= j
                /\ response.optimizedSequence[1] = request.stops[i].id

\* ------------------------------------- decode_route_from_scores on its own
\* Node counts and edge scores of the matrices handed to the decoder: the
\* scores of the oracle, float('-inf') and float('nan'), which a float32
\* score can be.
DecodeSizes == 1..3
\* float('nan') as argmax ranks it: above every number (torch takes a NaN
\* entry for the greatest, the first of them when there are several).
NaN == Inf + 1
DecodeScores == ScoreVals \cup {-Inf, NaN}

\* The N-by-N matrices with the diagonal RouteGNN.forward leaves at 0.
DecodeMatrices(N) ==
    {m \in [1..N -> [1..N -> DecodeScores \cup {0}]] : \A i \in 1..N : m[i][i] = 0}

\* A call of decode_route_from_scores(edge_scores, num_stops): request is
\* the pair of arguments as passed, etas the tensor the parameter
\* edge_scores refers to, optimized the list route, unvisited the set
\* visited and current_loc the node current (node k here is node k - 1 of
\* the code).
InitDecode ==
    /\ TRAINED_MODEL = None
    /\ pc = "decode_call"
    /\ endpoint = "none"
    /\ \E N \in DecodeSizes : \E m \in DecodeMatrices(N) :
          /\ request = [edge_scores |-> m, num_stops |-> N]
          /\ etas = m
    /\ unvisited = {}
    /\ remaining = <<>>
    /\ optimized = <<>>
    /\ current_loc = 0
    /\ total_distance = 0
    /\ cumulative_time = 0
    /\ iters = 0
    /\ oracle_calls = 0
    /\ ml_error = "none"
    /\ ran = {}
    /\ strategy = "none"
    /\ response = NoResponse
    /\ suspended = <<>>

\* visited = set(); route = []; current = 0; route.append; visited.add.
DecodeEnter ==
    /\ pc = "decode_call"
    /\ optimized' = <<1>>
    /\ unvisited' = {1}
    /\ current_loc' = 1
    /\ pc' = "decode_loop"
    /\ UNCHANGED <<TRAINED_MODEL, suspended, endpoint, request, remaining,
                   total_distance, cumulative_time, etas, iters, oracle_calls,
                   ml_error, ran, strategy, response>>

\* One iteration of `while len(visited) < num_stops`: scores is a clone of
\* the row, so the writes of -inf leave the tensor as it was.  The walk is
\* followed for at most MaxStops iterations.
DecodeStep ==
    /\ pc = "decode_loop"
    /\ Cardinality(unvisited) < request.num_stops
    /\ iters < MaxStops
    /\ LET scores == Masked(etas[current_loc], unvisited)
           next_node == ArgMax(scores)
       IN /\ optimized' = Append(optimized, next_node)
          /\ unvisited' = unvisited \cup {next_node}
          /\ current_loc' = next_node
    /\ iters' = iters + 1
    /\ UNCHANGED <<TRAINED_MODEL, suspended, pc, endpoint, request, remaining,
                   total_distance, cumulative_time, etas, oracle_calls,
                   ml_error, ran, strategy, response>>

\* return route
DecodeReturn ==
    /\ pc = "decode_loop"
    /\ Cardinality(unvisited) >= request.num_stops
    /\ response' = [kind |-> "route", route |-> optimized]
    /\ pc' = "decode_done"
    /\ UNCHANGED <<TRAINED_MODEL, suspended, endpoint, request, loopVars,
                   oracle_calls, ml_error, ran, strategy>>

NextDecode == DecodeEnter \/ DecodeStep \/ DecodeReturn

SpecDecode == InitDecode /\ [][NextDecode]_vars

\* The nodes not yet on the route.
NotVisited == (1..request.num_stops) \ unvisited

\* C20: the route starts with node 0; every node appended by an iteration
\* was unvisited, has the highest score of the unvisited nodes in the row
\* of the current node and is the lowest-numbered of those with that
\* score; and the score matrix stays as it was passed.
C20_GreedyDecode ==
    [][/\ pc' # "decode_call" => (optimized'[1] = 1 /\ etas' = request.edge_scores)
       /\ (pc = "decode_loop" /\ iters' = iters + 1) =>
            LET row == request.edge_scores[current_loc]
                next_node == optimized'[Len(optimized')]
            IN /\ Len(optimized') = Len(optimized) + 1
               /\ next_node \in NotVisited
               /\ \A j \in NotVisited :
                     /\ row[j] <= row[next_node]
                     /\ row[j] = row[next_node] => next_node <= j]_vars

\* C20 on the matrices that hold no -inf outside what the decoder writes.
FiniteScores ==
    \A i, j \in 1..request.num_stops : request.edge_scores[i][j] # -Inf
C20_GreedyDecodeFinite ==
    [][FiniteScores =>
       /\ pc' # "decode_call" => (optimized'[1] = 1 /\ etas' = request.edge_scores)
       /\ (pc = "decode_loop" /\ iters' = iters + 1) =>
            LET row == request.edge_scores[current_loc]
                next_node == optimized'[Len(optimized')]
            IN /\ Len(optimized') = Len(optimized) + 1
               /\ next_node \in NotVisited
               /\ \A j \in NotVisited :
                     /\ row[j] <= row[next_node]
                     /\ row[j] = row[next_node] => next_node <= j]_vars

\* C21: for every matrix handed to the decoder, -inf and NaN entries and
\* all-equal rows included, the loop makes no more than num_stops - 1
\* selections, and the route returned was built in exactly num_stops - 1
\* selections and holds every node once.
C21_DecodeTerminates ==
    /\ pc = "decode_loop" => iters <= request.num_stops - 1
    /\ pc = "decode_done" =>
          /\ iters = request.num_stops - 1
          /\ Len(response.route) = request.num_stops
          /\ Range(response.route) = 1..request.num_stops

\* ------------------------------------------------ build_graph_from_stops
\* The start position of the graph: the vehicle position when one is
\* supplied, otherwise the first stop (lines 336-339).
GraphStart(stops, vehicle_pos) ==
    IF HasVehicle(vehicle_pos) THEN vehicle_pos.lat ELSE stops[1].lat

\* node_features: one row per stop, in input order -- the coordinate, the
\* unloading time, the priority, is_start (1 for i == 0) and the distance
\* from the start position; the start position itself is given no row.
build_graph_from_stops(stops, vehicle_pos) ==
    [i \in 1..Len(stops) |->
        [lat |-> stops[i].lat,
         unloading |-> stops[i].unload,
         priority |-> stops[i].prio,
         is_start |-> IF i = 1 THEN 1 ELSE 0,
         dist_from_start |->
             calculate_distance_km(GraphStart(stops, vehicle_pos), stops[i].lat)]]

\* The graph the oracle was given for the running request.
GraphOfRequest == build_graph_from_stops(request.stops, request.vehiclePosition)

\* C22: in the graph handed to the oracle, node 0 is the start position --
\* the vehicle position when one is supplied, otherwise the first stop --
\* at distance 0 from the start, and it is the only node flagged is_start.
C22_StartNodeIsIndexZero ==
    (endpoint = "last_mile" /\ oracle_calls >= 1) =>
        /\ GraphOfRequest[1].lat = GraphStart(request.stops, request.vehiclePosition)
        /\ GraphOfRequest[1].dist_from_start = 0
        /\ \A i \in 1..NumStops : GraphOfRequest[i].is_start = 1 <=> i = 1

\* C23: within one request the oracle is called at most once; it has been
\* called only if the model is loaded and the request has more than one
\* stop; and once a call has failed, no step of the same request calls it
\* again.
C23_OracleAtMostOnce ==
    [][/\ oracle_calls' <= 1
       /\ oracle_calls' >= 1 => (TRAINED_MODEL' # None /\ Len(request'.stops) > 1)
       /\ (ml_error = "oracle" /\ request' = request) =>
              oracle_calls' = oracle_calls]_vars

\* C23 witness: the oracle was called once and failed, and the request was
\* answered by the heuristic without another call.
C23_Witness ==
    /\ Answered
    /\ ml_error = "oracle"
    /\ oracle_calls = 1
    /\ strategy = "nn"

\* C24: whenever exhaustive_search_reroute has been entered for the running
\* request, with or without a model loaded, the request has between 2 and
\* 6 stops; a request of more than 6 stops never enters it.
C24_ExhaustiveAdmission ==
    /\ "exact" \in ran => (NumStops >= 2 /\ NumStops <= ExactLimit)
    /\ strategy = "exact" => "exact" \in ran

\* C24 witness: with a model loaded, a request of 6 stops was answered by
\* the exhaustive search.
C24_Witness ==
    /\ Answered
    /\ TRAINED_MODEL # None
    /\ "exact" \in ran
    /\ NumStops = ExactLimit

\* C25: in every last-mile result for two or more stops, of the model or
\* of the heuristic, the optimized total distance reported equals the
\* length of the returned sequence as calculate_sequence_total_distance
\* measures the baseline: from the start position through the stops in
\* order, in miles, without priority discount.
C25_OptimizedTotalIsPathLength ==
    (/\ Answered
     /\ endpoint = "last_mile"
     /\ NumStops >= 2
     /\ DistinctIds(request.stops)) =>
        response.optimized_total = RouteMiles(response.optimized_sequence)

\* ------------------------------------------------ build_segment_durations
\* round(dist_miles, 2) in hundredths of a mile and round(dist_miles * 2, 1)
\* in tenths of a minute, from thousandths of a mile.
RoundMiles(miles) == (miles + 5) \div 10
RoundMinutes(miles) == (2 * miles + 50) \div 100

\* `if stop_id == prev_id: continue`
SameAsPrevious(stop_id, prev_id) == stop_id = prev_id

\* `for stop_id in sequence:` from element k on.
RECURSIVE SegmentsLoop(_, _, _, _, _, _)
SegmentsLoop(sequence, stops, k, prev_loc, prev_id, segments) ==
    IF k > Len(sequence) THEN segments
    ELSE IF SameAsPrevious(sequence[k], prev_id)
         THEN SegmentsLoop(sequence, stops, k + 1, prev_loc, prev_id, segments)
    ELSE LET next_loc == StopById(stops, sequence[k]).lat
             dist_miles == KmToMiles(calculate_distance_km(prev_loc, next_loc))
         IN SegmentsLoop(sequence, stops, k + 1, next_loc, sequence[k],
                         Append(segments,
                                [fromStopId |-> prev_id,
                                 toStopId |-> sequence[k],
                                 distanceMiles |-> RoundMiles(dist_miles),
                                 durationMinutes |-> RoundMinutes(dist_miles)]))

\* build_segment_durations(sequence, stops, vehicle_pos): the segments, or
\* the KeyError of a vehicle dict without 'lng'.
build_segment_durations(sequence, stops, vehicle_pos) ==
    IF Len(sequence) = 0 THEN [kind |-> "segments", segments |-> <<>>]
    ELSE IF VehicleRaises(vehicle_pos) THEN [kind |-> "KeyError"]
    ELSE [kind |-> "segments",
          segments |->
              IF HasVehicle(vehicle_pos)
              THEN SegmentsLoop(sequence, stops, 1, vehicle_pos.lat, "vehicle", <<>>)
              ELSE SegmentsLoop(sequence, stops, 1,
                                StopById(stops, sequence[1]).lat, sequence[1], <<>>)]

\* The calls of build_segment_durations: up to three stops whose ids are
\* any strings (two plain ones and "vehicle" stand for them, so that ids
\* may repeat), the sequence an ordering of the stops as both solvers
\* produce one, and every kind of vehicle position.
SegmentSizes == 0..3
SegmentIds == {"s1", "s2", "vehicle"}
SegmentStops == UNION {[1..n -> [id : SegmentIds, lat : Lats]] : n \in SegmentSizes}
Orderings(n) == {p \in [1..n -> 1..n] : \A i, j \in 1..n : i # j => p[i] # p[j]}

InitSegments ==
    /\ TRAINED_MODEL = None
    /\ pc = "segments_call"
    /\ endpoint = "none"
    /\ \E stops \in SegmentStops, v \in Vehicles :
         \E p \in Orderings(Len(stops)) :
            request = [sequence |-> [k \in 1..Len(stops) |-> stops[p[k]].id],
                       stops |-> stops,
                       vehicle_pos |-> v]
    /\ unvisited = {}
    /\ remaining = <<>>
    /\ optimized = <<>>
    /\ current_loc = 0
    /\ total_distance = 0
    /\ cumulative_time = 0
    /\ etas = <<>>
    /\ iters = 0
    /\ oracle_calls = 0
    /\ ml_error = "none"
    /\ ran = {}
    /\ strategy = "none"
    /\ response = NoResponse
    /\ suspended = <<>>

SegmentsCall ==
    /\ pc = "segments_call"
    /\ response' = build_segment_durations(request.sequence, request.stops,
                                           request.vehicle_pos)
    /\ pc' = "segments_done"
    /\ UNCHANGED <<TRAINED_MODEL, suspended, endpoint, request, loopVars, oracle_calls,
                   ml_error, ran, strategy>>

SpecSegments == InitSegments /\ [][SegmentsCall]_vars

\* The segments form a chain that ends at the stops of sequence from
\* position first on, starting from the id start.
ChainOver(segments, sequence, first, start) ==
    /\ Len(segments) = Len(sequence) - first + 1
    /\ \A k \in 1..Len(segments) :
          /\ segments[k].toStopId = sequence[first + k - 1]
          /\ segments[k].fromStopId = IF k = 1 THEN start ELSE segments[k - 1].toStopId

\* C26: the segments returned are a chain over the sequence: with a vehicle
\* position one segment per stop, the first from "vehicle" and the
\* toStopIds the sequence in order; without one, one segment per
\* consecutive pair, from the first stop through the others in order; each
\* fromStopId is the toStopId of the segment before.  Stated for stops with
\* distinct ids.
C26_SegmentChain ==
    (/\ pc = "segments_done"
     /\ response.kind = "segments"
     /\ Len(request.sequence) > 0
     /\ DistinctIds(request.stops)) =>
        IF HasVehicle(request.vehicle_pos)
        THEN ChainOver(response.segments, request.sequence, 1, "vehicle")
        ELSE ChainOver(response.segments, request.sequence, 2, request.sequence[1])

\* C27: the confidence of a result is fixed by the solver that produced it:
\* 0.75 for the exhaustive search, 0.6 for the nearest-neighbour loop of
\* the reroute path and 0.65 for that of the last-mile path, 1.0 for the
\* trivial result of at most one stop.
C27_ConfidencePerStrategy ==
    Answered =>
        /\ strategy = "exact" => response.confidence = 750
        /\ (strategy = "nn" /\ endpoint = "reroute") => response.confidence = 600
        /\ (strategy = "nn" /\ endpoint = "last_mile") => response.confidence = 650
        /\ NumStops <= 1 => (strategy = "trivial" /\ response.confidence = 1000)
        /\ strategy \in {"exact", "nn", "trivial", "ml"}

\* C27 witness: a last-mile request with a vehicle position and stops of
\* different priorities at different places, answered by the
\* nearest-neighbour loop.
C27_Witness ==
    /\ Answered
    /\ strategy = "nn"
    /\ endpoint = "last_mile"
    /\ HasVehicle(request.vehiclePosition)
    /\ \E i, j \in 1..NumStops :
          /\ request.stops[i].lat # request.stops[j].lat
          /\ request.stops[i].prio # request.stops[j].prio

\* The stop of the running request at position k of a returned sequence,
\* and the place the vehicle leaves for it.
StopAt(seq, k) == StopById(request.stops, seq[k])
DepartureOf(seq, k) ==
    IF k = 1 THEN request.currentLocation ELSE StopAt(seq, k - 1).lat

\* The sum of the unloading times, in thousandths of a minute, of the first
\* k stops of a sequence.
RECURSIVE UnloadingUpTo(_, _)
UnloadingUpTo(seq, k) ==
    IF k = 0 THEN 0 ELSE UnloadingUpTo(seq, k - 1) + StopAt(seq, k).unload * 1000

\* C28: in every reroute result of the exhaustive search or of the
\* nearest-neighbour loop (stop ids unique within the request), the keys of
\* estimatedETAs are the ids of optimizedSequence; along the sequence the
\* ETAs never decrease; each ETA is the ETA before it (0 for the first) plus
\* the travel time of the leg and the unloading time of its own stop, so
\* that it holds the unloading times of its own and all earlier stops, and
\* the last ETA is the total time of the route.
C28_EtasAlongSequence ==
    (/\ Answered
     /\ endpoint = "reroute"
     /\ strategy \in {"exact", "nn"}
     /\ DistinctIds(request.stops)) =>
        LET seq == response.optimizedSequence
            eta(k) == IF k = 0 THEN 0 ELSE response.estimatedETAs[seq[k]]
            pct == get_traffic_multiplier(request.level)
        IN /\ DOMAIN response.estimatedETAs = Range(seq)
           /\ \A k \in 1..Len(seq) :
                 /\ eta(k - 1) <= eta(k)
                 /\ eta(k) >= UnloadingUpTo(seq, k)
                 /\ eta(k) = eta(k - 1)
                              + (calculate_distance_km(DepartureOf(seq, k),
                                                       StopAt(seq, k).lat) * 75) \div pct
                              + StopAt(seq, k).unload * 1000

\* C28 witness: a nearest-neighbour reroute result in which a stop with an
\* unloading time is followed by other stops, and the last ETA is beyond
\* the unloading times alone.
C28_Witness ==
    /\ Answered
    /\ endpoint = "reroute"
    /\ strategy = "nn"
    /\ DistinctIds(request.stops)
    /\ LET seq == response.optimizedSequence
       IN /\ \E k \in 1..(Len(seq) - 1) : StopAt(seq, k).unload > 0
          /\ response.estimatedETAs[seq[Len(seq)]] > UnloadingUpTo(seq, Len(seq))

\* ------------------------------------- the ETA cascade on full coordinates
\* ETA requests whose places are coordinates of the grid on the meridians
\* 0 and 180: up to two stops, the speeds and weathers of the handler.
EtaSizes == 0..2
EtaCoordinates == {c \in Coordinates : c.lng \in {0, 180}}
EtaStopsAt ==
    UNION {{[i \in 1..n |-> [id |-> IdNames[i], location |-> l[i], unload |-> u[i]]] :
               l \in [1..n -> EtaCoordinates], u \in [1..n -> Unloads]} :
           n \in EtaSizes}
EtaRequestsAt ==
    {[stops |-> s, currentLocation |-> l, currentSpeed |-> v, level |-> t,
      weather |-> w] :
        s \in EtaStopsAt, l \in EtaCoordinates, v \in Speeds,
        t \in {"none", "heavy"}, w \in {"clear", "storm"}}

\* The for loop of fallback_eta_calculation from stop k on, with
\* calculate_distance_km in full: the exception it raises, or the
\* predictions and the cumulative time (hundredths of a minute).
RECURSIVE EtaLoopAt(_, _, _, _, _)
EtaLoopAt(req, k, loc, cumulative, predictions) ==
    IF k > Len(req.stops)
    THEN [raised |-> "none", predictions |-> predictions, total |-> cumulative]
    ELSE LET stop == req.stops[k]
             distance == calculate_distance_km_at(loc, stop.location)
             \* kilometres over km/h: the quotient of the metres version
             travel == EtaTravelMinutes(distance.km \div 1000,
                                        AdjustedSpeed(req) \div 1000)
         IN IF distance.kind = "ValueError"
            THEN [raised |-> "ValueError", predictions |-> predictions,
                  total |-> cumulative]
            ELSE IF travel.raised
            THEN [raised |-> "ZeroDivisionError", predictions |-> predictions,
                  total |-> cumulative]
            ELSE LET t == cumulative + travel.value + 100 * stop.unload
                 IN EtaLoopAt(req, k + 1, stop.location, t,
                              Append(predictions,
                                     [stopId |-> stop.id,
                                      estimatedArrivalMinutes |-> t,
                                      confidence |-> 600]))

\* fallback_eta_calculation(request): the response, or what it raises.
fallback_eta_calculation_at(req) ==
    LET out == EtaLoopAt(req, 1, req.currentLocation, 0, <<>>)
    IN IF out.raised # "none" THEN [kind |-> out.raised]
       ELSE [kind |-> "ETAResponse",
             predictions |-> out.predictions,
             totalEstimatedMinutes |-> out.total,
             modelConfidence |-> 600,
             fallbackUsed |-> TRUE]

\* predict_eta has received a request and calls ml_eta_prediction.
InitEta ==
    /\ TRAINED_MODEL = None
    /\ pc = "eta_call"
    /\ endpoint = "eta"
    /\ request \in EtaRequestsAt
    /\ unvisited = {}
    /\ remaining = <<>>
    /\ optimized = <<>>
    /\ current_loc = 0
    /\ total_distance = 0
    /\ cumulative_time = 0
    /\ etas = <<>>
    /\ iters = 0
    /\ oracle_calls = 0
    /\ ml_error = "none"
    /\ ran = {}
    /\ strategy = "none"
    /\ response = NoResponse
    /\ suspended = <<>>

\* ml_eta_prediction: the model handle is None, so the function returns
\* fallback_eta_calculation(request), called outside the try block; what the
\* fallback raises leaves ml_eta_prediction.
ml_eta_prediction_at ==
    /\ pc = "eta_call"
    /\ ETA_TRAINED_MODEL = None
    /\ response' = fallback_eta_calculation_at(request)
    /\ pc' = IF response'.kind = "ETAResponse" THEN "eta_returned" ELSE "eta_raised"
    /\ UNCHANGED <<TRAINED_MODEL, suspended, endpoint, request, loopVars,
                   oracle_calls, ml_error, ran, strategy>>

\* predict_eta: return result, or HTTP 500 for the exception.
predict_eta_at ==
    /\ pc \in {"eta_returned", "eta_raised"}
    /\ response' = IF pc = "eta_raised" THEN HTTPException ELSE response
    /\ pc' = "eta_answered"
    /\ UNCHANGED <<TRAINED_MODEL, suspended, endpoint, request, loopVars,
                   oracle_calls, ml_error, ran, strategy>>

NextEta == ml_eta_prediction_at \/ predict_eta_at

SpecEta == InitEta /\ [][NextEta]_vars

\* C29: ml_eta_prediction lets no exception out; what it returns has
\* fallbackUsed true exactly when the model handle is unset (or the learned
\* prediction raised, which needs a handle), one prediction per input stop
\* in input order, arrival minutes that never decrease, and a total equal
\* to the last of them.
C29_EtaCascade ==
    /\ pc # "eta_raised"
    /\ pc = "eta_returned" =>
          /\ response.fallbackUsed = (ETA_TRAINED_MODEL = None)
          /\ Len(response.predictions) = Len(request.stops)
          /\ \A k \in 1..Len(request.stops) :
                /\ response.predictions[k].stopId = request.stops[k].id
                /\ k > 1 => response.predictions[k - 1].estimatedArrivalMinutes
                               <= response.predictions[k].estimatedArrivalMinutes
          /\ Len(request.stops) > 0 =>
                response.predictions[Len(request.stops)].estimatedArrivalMinutes
                   = response.totalEstimatedMinutes

\* C30: without a vehicle position, every last-mile result for at least
\* one stop -- trivial, of the heuristic or of the model -- begins with the
\* id of the first input stop.
C30_FirstStopFirst ==
    (/\ Answered
     /\ endpoint = "last_mile"
     /\ ~HasVehicle(request.vehiclePosition)
     /\ NumStops >= 1) =>
        /\ Len(response.optimized_sequence) >= 1
        /\ response.optimized_sequence[1] = request.stops[1].id

\* C30 witness: without a vehicle position the heuristic answered a request
\* whose first stop has normal priority and shares its id with no other,
\* while a high-priority stop lies elsewhere.
C30_Witness ==
    /\ Answered
    /\ endpoint = "last_mile"
    /\ strategy = "nn"
    /\ ~HasVehicle(request.vehiclePosition)
    /\ DistinctIds(request.stops)
    /\ request.stops[1].prio = 0
    /\ \E j \in 2..NumStops :
          /\ request.stops[j].prio = 1
          /\ request.stops[j].lat # request.stops[1].lat
====
